---- MODULE Spec2Model ----
(***************************************************************************)
(* Model of miscnn/neural_network/model.py: the Neural_Network pipeline    *)
(* orchestrator (train, predict, evaluate) together with the collaborators *)
(* it drives: the preprocessor's shape cache, the patch reconstructor      *)
(* concat_3Dmatrices, the subfunctions' postprocessing, the Data I/O sink  *)
(* and batch_cleanup.  Volumes are one-dimensional: an array is a sequence *)
(* of voxels, a voxel before argmax a sequence of class scores.            *)
(***************************************************************************)
EXTENDS Integers, Sequences, FiniteSets, TLC

\* ------------------------------------------------------------------ bounds
MaxLen     == 2      \* longest sample_list handed to a stage
NumClasses == 2      \* interface.classes
MaxScore   == 1      \* class scores are 0..MaxScore
MaxWindow  == 2      \* preprocessor.patch_shape (window extent)

\* The sample identifiers: two volumes of different extent.
Samples == {1, 2}

\* Sample lists of length 0..MaxLen; an identifier may occur twice.
SampleLists == UNION {[1..n -> Samples] : n \in 0..MaxLen}

\* A voxel's per-class scores, as the model returns them.
ScoreVectors == [1..NumClasses -> 0..MaxScore]

\* The original extent of a sample's volume: sample 1 has two voxels, the
\* next one three, and so on.
SampleShape(s) == s + 1

Min(a, b) == IF a < b THEN a ELSE b

VARIABLES
    analysis,                \* preprocessor.analysis
    prepare_batches,         \* preprocessor.prepare_batches
    prepare_subfunctions,    \* preprocessor.prepare_subfunctions
    subfunctions,            \* preprocessor.subfunctions, in registration order
    patch_shape,             \* preprocessor.patch_shape
    patchwise_grid_overlap,  \* preprocessor.patchwise_grid_overlap
    shape_cache,             \* preprocessor.shape_cache: sample -> shape
    stage,                   \* the method running: none, train, predict, evaluate
    pc,                      \* position inside the running method
    sample_list,             \* argument of the running method
    direct_output,           \* argument of predict
    idx,                     \* position of the for loop in sample_list
    pred_seg,                \* local pred_seg of predict
    seg_shape,               \* local seg_shape of predict (0: not loaded)
    results,                 \* local results of predict
    ret,                     \* what predict returned: unset, list, None
    saved,                   \* calls data_io.save_prediction(volume, sample) received
    cleanups,                \* calls data_io.batch_cleanup() received
    error,                   \* the exception that left the method, or none
    raw,                     \* history: predict_generator's output for the sample
    concat_args,             \* history: arguments of the last concat_3Dmatrices call
    steps                    \* history: steps run for the current sample

config == <<analysis, prepare_batches, prepare_subfunctions, subfunctions,
            patch_shape, patchwise_grid_overlap>>
locals == <<pred_seg, seg_shape, raw, concat_args, steps>>
vars == <<analysis, prepare_batches, prepare_subfunctions, subfunctions,
          patch_shape, patchwise_grid_overlap, shape_cache, stage, pc,
          sample_list, direct_output, idx, pred_seg, seg_shape, results, ret,
          saved, cleanups, error, raw, concat_args, steps>>

AnalysisModes == {"fullimage", "patchwise-crop", "patchwise-grid"}

\* The registered subfunctions: two relabelling post-processors that do not
\* commute, in either registration order, or none.
SubfunctionLists == {<<>>, <<"rotate", "merge">>, <<"merge", "rotate">>}

\* ------------------------------------------------------- pure functions

\* The scan keeping the last of equal maxima instead of the first.
RECURSIVE ArgMaxScanLast(_, _, _)
ArgMaxScanLast(v, i, best) ==
    IF i > Len(v) THEN best - 1
    ELSE IF v[i] >= v[best] THEN ArgMaxScanLast(v, i + 1, i)
    ELSE ArgMaxScanLast(v, i + 1, best)

\* np.argmax over one score vector: the first index holding the maximum,
\* as a 0-based class index.  best is the 1-based index of the maximum seen.
RECURSIVE ArgMaxScan(_, _, _)
ArgMaxScan(v, i, best) ==
    IF i > Len(v) THEN best - 1
    ELSE IF v[i] > v[best] THEN ArgMaxScan(v, i + 1, i)
    ELSE ArgMaxScan(v, i + 1, best)

ArgMax(v) == ArgMaxScan(v, 2, 1)

\* np.argmax(arr, axis=-1) on an array of the given rank: the last axis is
\* reduced, the leading axes are kept.
RECURSIVE ArgMaxLastAxis(_, _)
ArgMaxLastAxis(arr, rank) ==
    IF rank = 1 THEN ArgMax(arr)
    ELSE [i \in DOMAIN arr |-> ArgMaxLastAxis(arr[i], rank - 1)]

\* The relabelling a subfunction's postprocessing performs on one label.
Relabel(sf, l) ==
    IF sf = "rotate" THEN (l + 1) % NumClasses
    ELSE IF l = 1 THEN 0 ELSE l

\* sf.postprocessing(pred_seg): mutates the label array in place.
RECURSIVE postprocessing(_, _, _)
postprocessing(sf, arr, rank) ==
    IF rank = 0 THEN Relabel(sf, arr)
    ELSE [i \in DOMAIN arr |-> postprocessing(sf, arr[i], rank - 1)]

\* The loop walking the subfunctions from the last registered to the first.
RECURSIVE RunSubfunctionsReversed(_, _, _, _)
RunSubfunctionsReversed(sfs, k, arr, rank) ==
    IF k > Len(sfs) THEN arr
    ELSE RunSubfunctionsReversed(sfs, k + 1,
             postprocessing(sfs[Len(sfs) + 1 - k], arr, rank), rank)

\* for sf in self.preprocessor.subfunctions: sf.postprocessing(pred_seg)
RECURSIVE RunSubfunctions(_, _, _, _)
RunSubfunctions(sfs, k, arr, rank) ==
    IF k > Len(sfs) THEN arr
    ELSE RunSubfunctions(sfs, k + 1, postprocessing(sfs[k], arr, rank), rank)

\* ------------------------------------------------- patch reconstructor

\* Number of windows along the axis: ceil(size / stride), stride = window - overlap.
GridCount(size, window, overlap) ==
    IF window >= size THEN 1
    ELSE (size + (window - overlap) - 1) \div (window - overlap)

\* 0-based origin of window k (1-based): the last windows are shifted back so
\* they still fit inside the volume.
GridOrigin(k, size, window, overlap) ==
    IF window >= size THEN 0
    ELSE Min((k - 1) * (window - overlap), size - window)

\* Extent of one patch: the window, clipped to the volume.
PatchLen(size, window) == Min(window, size)

\* Walk the patches in grid order, each written at its origin: a later patch
\* overwrites an earlier one.  <<>> marks a voxel nobody wrote.
RECURSIVE WritePatches(_, _, _, _, _, _)
WritePatches(buf, k, patches, size, window, overlap) ==
    IF k > Len(patches) THEN buf
    ELSE LET o == GridOrigin(k, size, window, overlap)
             written == [x \in 1..size |->
                            IF x > o /\ x <= o + Len(patches[k])
                            THEN patches[k][x - o] ELSE buf[x]]
         IN  WritePatches(written, k + 1, patches, size, window, overlap)

concat_3Dmatrices(patches, image_size, window, overlap) ==
    IF overlap >= window
    THEN [error |-> "InvalidOverlapError", volume |-> <<>>]
    ELSE IF Len(patches) # GridCount(image_size, window, overlap)
            \/ \E k \in DOMAIN patches :
                  Len(patches[k]) # PatchLen(image_size, window)
    THEN [error |-> "ReconstructionCoverageError", volume |-> <<>>]
    ELSE LET out == WritePatches([x \in 1..image_size |-> <<>>], 1, patches,
                                 image_size, window, overlap)
         IN  IF \E x \in 1..image_size : out[x] = <<>>
             THEN [error |-> "ReconstructionCoverageError", volume |-> <<>>]
             ELSE [error |-> "none", volume |-> out]

\* --------------------------------------------------------- collaborators

\* The test written as: analysis == "patchwise-crop" or "patchwise-grid".
PatchwiseTruthy == analysis = "patchwise-crop" \/ TRUE

\* if analysis == "patchwise-crop" or analysis == "patchwise-grid"
Patchwise == analysis = "patchwise-crop" \/ analysis = "patchwise-grid"

\* The test written with "and" in place of "or".
CachingBoth == prepare_batches /\ prepare_subfunctions

\* if prepare_batches or prepare_subfunctions
CachingActive == prepare_batches \/ prepare_subfunctions

\* Number of arrays in predict_generator's output for one sample: the patches
\* of the sample's decomposition grid under a patch-based analysis, the whole
\* volume otherwise.
BatchCount(s) ==
    IF ~Patchwise THEN 1
    ELSE IF patchwise_grid_overlap >= patch_shape THEN 1
    ELSE GridCount(SampleShape(s), patch_shape, patchwise_grid_overlap)

\* Extent of each of these arrays.
BatchLen(s) ==
    IF Patchwise THEN PatchLen(SampleShape(s), patch_shape) ELSE SampleShape(s)

\* Every output model.predict_generator can return for one sample.
AllOutputs(s) == [1..BatchCount(s) -> [1..BatchLen(s) -> ScoreVectors]]

\* The score vector that favours class c alone.
OneHot(c) == [j \in 1..NumClasses |-> IF j = c + 1 THEN MaxScore ELSE 0]

\* One output per class k: voxel x of patch p favours class k + 2p + x, so
\* that neighbouring voxels differ and so do the patches that overlap.
PredictGenerator(s) ==
    {[p \in 1..BatchCount(s) |-> [x \in 1..BatchLen(s) |->
         OneHot((k + 2 * p + x) % NumClasses)]] : k \in 0..(NumClasses - 1)}

\* A lookup that leaves the record in the cache.
PoppedKeep(cache, s) == cache

\* shape_cache.pop(sample): the cache without the sample's record.
Popped(cache, s) == [x \in DOMAIN cache \ {s} |-> cache[x]]

\* ------------------------------------------------------------------ Init

\* The state after Neural_Network(preprocessor): the preprocessor's
\* configuration is taken as given, no stage has run.
Init ==
    /\ analysis \in AnalysisModes
    /\ prepare_batches \in BOOLEAN
    /\ prepare_subfunctions \in BOOLEAN
    /\ subfunctions \in SubfunctionLists
    /\ patch_shape = MaxWindow
    /\ patchwise_grid_overlap \in 0..MaxWindow
    /\ shape_cache = <<>>
    /\ stage = "none"
    /\ pc = "idle"
    /\ sample_list = <<>>
    /\ direct_output = FALSE
    /\ idx = 0
    /\ pred_seg = <<>>
    /\ seg_shape = 0
    /\ results = <<>>
    /\ ret = "unset"
    /\ saved = <<>>
    /\ cleanups = 0
    /\ error = "none"
    /\ raw = <<>>
    /\ concat_args = <<>>
    /\ steps = <<>>

\* --------------------------------------------------------- preprocessing

\* The preprocessing step records the shape of a sample it decomposes.
Put(s) ==
    /\ pc = "idle"
    /\ s \notin DOMAIN shape_cache
    /\ shape_cache' = [x \in DOMAIN shape_cache \cup {s} |->
                          IF x = s THEN SampleShape(s) ELSE shape_cache[x]]
    /\ UNCHANGED <<config, stage, pc, sample_list, direct_output, idx, results,
                   ret, saved, cleanups, error, locals>>

\* ----------------------------------------------------------------- train

Raise(e) ==
    /\ pc' = "failed"
    /\ error' = e

Train(sl) ==
    /\ pc = "idle"
    /\ stage' = "train"
    /\ sample_list' = sl
    /\ cleanups' = IF CachingActive THEN cleanups + 1 ELSE cleanups
    /\ pc' = "done"
    /\ UNCHANGED <<config, shape_cache, direct_output, idx, results, ret, saved,
                   error, locals>>

\* fit_generator raises: the exception leaves train.
TrainFail(sl) ==
    /\ pc = "idle"
    /\ stage' = "train"
    /\ sample_list' = sl
    /\ Raise("FitError")
    /\ UNCHANGED <<config, shape_cache, direct_output, idx, results, ret, saved,
                   cleanups, locals>>

\* -------------------------------------------------------------- evaluate

Evaluate(sl) ==
    /\ pc = "idle"
    /\ stage' = "evaluate"
    /\ sample_list' = sl
    /\ cleanups' = IF CachingActive THEN cleanups + 1 ELSE cleanups
    /\ pc' = "done"
    /\ UNCHANGED <<config, shape_cache, direct_output, idx, results, ret, saved,
                   error, locals>>

EvaluateFail(sl) ==
    /\ pc = "idle"
    /\ stage' = "evaluate"
    /\ sample_list' = sl
    /\ Raise("FitError")
    /\ UNCHANGED <<config, shape_cache, direct_output, idx, results, ret, saved,
                   cleanups, locals>>

\* --------------------------------------------------------------- predict

sample == sample_list[idx]

StartPredict(sl, d) ==
    /\ pc = "idle"
    /\ stage' = "predict"
    /\ sample_list' = sl
    /\ direct_output' = d
    /\ results' = <<>>
    /\ idx' = 1
    /\ pc' = "loop"
    /\ UNCHANGED <<config, shape_cache, ret, saved, cleanups, error, locals>>

\* DataGenerator([sample], ...) and model.predict_generator(...)
FetchInfer ==
    /\ pc = "loop"
    /\ idx <= Len(sample_list)
    /\ \E out \in PredictGenerator(sample) :
          /\ pred_seg' = out
          /\ raw' = out
    /\ seg_shape' = 0
    /\ concat_args' = <<>>
    /\ steps' = <<"FetchInfer">>
    /\ pc' = "inferred"
    /\ UNCHANGED <<config, shape_cache, stage, sample_list, direct_output, idx,
                   results, ret, saved, cleanups, error>>

\* The same step, the model's output drawn from every array of scores.
FetchInferAny ==
    /\ pc = "loop"
    /\ idx <= Len(sample_list)
    /\ \E out \in AllOutputs(sample) :
          /\ pred_seg' = out
          /\ raw' = out
    /\ seg_shape' = 0
    /\ concat_args' = <<>>
    /\ steps' = <<"FetchInfer">>
    /\ pc' = "inferred"
    /\ UNCHANGED <<config, shape_cache, stage, sample_list, direct_output, idx,
                   results, ret, saved, cleanups, error>>

\* The batch stream or the model raises.
FetchInferFail ==
    /\ pc = "loop"
    /\ idx <= Len(sample_list)
    /\ Raise("BatchStreamError")
    /\ steps' = <<>>
    /\ UNCHANGED <<config, shape_cache, stage, sample_list, direct_output, idx,
                   results, ret, saved, cleanups, pred_seg, seg_shape, raw,
                   concat_args>>

\* seg_shape = shape_cache.pop(sample); pred_seg = concat_3Dmatrices(...)
Reassemble ==
    /\ pc = "inferred"
    /\ Patchwise
    /\ sample \in DOMAIN shape_cache
    /\ LET shape == shape_cache[sample]
           rec == concat_3Dmatrices(pred_seg, shape, patch_shape,
                                    patchwise_grid_overlap)
       IN  /\ seg_shape' = shape
           /\ shape_cache' = Popped(shape_cache, sample)
           /\ concat_args' = [patches |-> pred_seg, image_size |-> shape,
                              window |-> patch_shape,
                              overlap |-> patchwise_grid_overlap]
           /\ IF rec.error = "none"
              THEN /\ pred_seg' = rec.volume
                   /\ pc' = "reassembled"
                   /\ steps' = Append(steps, "Reassemble")
                   /\ UNCHANGED error
              ELSE /\ Raise(rec.error)
                   /\ UNCHANGED <<pred_seg, steps>>
    /\ UNCHANGED <<config, stage, sample_list, direct_output, idx, results, ret,
                   saved, cleanups, raw>>

\* The missing record swallowed and the sample skipped.
ReassembleMissingSkipped ==
    /\ pc = "inferred"
    /\ Patchwise
    /\ sample \notin DOMAIN shape_cache
    /\ idx' = idx + 1
    /\ pc' = "loop"
    /\ UNCHANGED <<config, shape_cache, stage, sample_list, direct_output,
                   results, ret, saved, cleanups, error, locals>>

\* shape_cache.pop(sample) finds no record.
ReassembleMissing ==
    /\ pc = "inferred"
    /\ Patchwise
    /\ sample \notin DOMAIN shape_cache
    /\ Raise("MissingShapeError")
    /\ UNCHANGED <<config, shape_cache, stage, sample_list, direct_output, idx,
                   results, ret, saved, cleanups, locals>>

\* pred_seg = np.argmax(pred_seg, axis=-1)
Discretize ==
    /\ \/ pc = "inferred" /\ ~Patchwise
       \/ pc = "reassembled"
    /\ pred_seg' = ArgMaxLastAxis(pred_seg, IF pc = "reassembled" THEN 2 ELSE 3)
    /\ steps' = Append(steps, "Discretize")
    /\ pc' = "discretized"
    /\ UNCHANGED <<config, shape_cache, stage, sample_list, direct_output, idx,
                   results, ret, saved, cleanups, error, seg_shape, raw,
                   concat_args>>

\* Rank of the label array after argmax.
LabelRank == IF Patchwise THEN 1 ELSE 2

PostProcess ==
    /\ pc = "discretized"
    /\ pred_seg' = RunSubfunctions(subfunctions, 1, pred_seg, LabelRank)
    /\ steps' = Append(steps, "PostProcess")
    /\ pc' = "postprocessed"
    /\ UNCHANGED <<config, shape_cache, stage, sample_list, direct_output, idx,
                   results, ret, saved, cleanups, error, seg_shape, raw,
                   concat_args>>

\* A registered postprocessing raises.
PostProcessFail ==
    /\ pc = "discretized"
    /\ subfunctions # <<>>
    /\ Raise("PostprocessingError")
    /\ UNCHANGED <<config, shape_cache, stage, sample_list, direct_output, idx,
                   results, ret, saved, cleanups, locals>>

\* The sink called whether or not direct output was asked for.
EmitAlwaysSave ==
    /\ pc = "postprocessed"
    /\ results' = IF direct_output THEN Append(results, pred_seg) ELSE results
    /\ saved' = Append(saved, <<pred_seg, sample>>)
    /\ steps' = Append(steps, "Emit")
    /\ pc' = "emitted"
    /\ UNCHANGED <<config, shape_cache, stage, sample_list, direct_output, idx,
                   ret, cleanups, error, pred_seg, seg_shape, raw, concat_args>>

\* results.append(pred_seg) or data_io.save_prediction(pred_seg, sample)
Emit ==
    /\ pc = "postprocessed"
    /\ IF direct_output
       THEN /\ results' = Append(results, pred_seg)
            /\ UNCHANGED saved
       ELSE /\ saved' = Append(saved, <<pred_seg, sample>>)
            /\ UNCHANGED results
    /\ steps' = Append(steps, "Emit")
    /\ pc' = "emitted"
    /\ UNCHANGED <<config, shape_cache, stage, sample_list, direct_output, idx,
                   ret, cleanups, error, pred_seg, seg_shape, raw, concat_args>>

\* data_io.save_prediction raises.
EmitFail ==
    /\ pc = "postprocessed"
    /\ ~direct_output
    /\ Raise("SaveError")
    /\ UNCHANGED <<config, shape_cache, stage, sample_list, direct_output, idx,
                   results, ret, saved, cleanups, locals>>

\* if prepare_batches or prepare_subfunctions: data_io.batch_cleanup();
\* then the for loop moves to the next sample.
Cleanup ==
    /\ pc = "emitted"
    /\ cleanups' = IF CachingActive THEN cleanups + 1 ELSE cleanups
    /\ steps' = IF CachingActive THEN Append(steps, "Cleanup") ELSE steps
    /\ idx' = idx + 1
    /\ pc' = "loop"
    /\ UNCHANGED <<config, shape_cache, stage, sample_list, direct_output,
                   results, ret, saved, error, pred_seg, seg_shape, raw,
                   concat_args>>

\* if direct_output: return results
PredictReturn ==
    /\ pc = "loop"
    /\ idx > Len(sample_list)
    /\ ret' = IF direct_output THEN "list" ELSE "None"
    /\ pc' = "done"
    /\ UNCHANGED <<config, shape_cache, stage, sample_list, direct_output, idx,
                   results, saved, cleanups, error, locals>>

Next ==
    \/ \E s \in Samples : Put(s)
    \/ \E sl \in SampleLists : Train(sl)
    \/ \E sl \in SampleLists : TrainFail(sl)
    \/ \E sl \in SampleLists : Evaluate(sl)
    \/ \E sl \in SampleLists : EvaluateFail(sl)
    \/ \E sl \in SampleLists, d \in BOOLEAN : StartPredict(sl, d)
    \/ FetchInfer
    \/ FetchInferFail
    \/ Reassemble
    \/ ReassembleMissing
    \/ Discretize
    \/ PostProcess
    \/ PostProcessFail
    \/ Emit
    \/ EmitFail
    \/ Cleanup
    \/ PredictReturn

Spec == Init /\ [][Next]_vars

\* ------------------------------------------- discretization on any scores

\* predict called on one sample whose shape is cached, about to fetch it;
\* under a patch-based analysis the sample fits one window.
InitArgmax ==
    /\ analysis \in AnalysisModes
    /\ prepare_batches = FALSE
    /\ prepare_subfunctions = FALSE
    /\ subfunctions = <<>>
    /\ patch_shape = MaxWindow
    /\ patchwise_grid_overlap = 0
    /\ shape_cache = [s \in Samples |-> SampleShape(s)]
    /\ stage = "predict"
    /\ pc = "loop"
    /\ sample_list \in {<<s>> : s \in {x \in Samples :
                            Patchwise => SampleShape(x) <= MaxWindow}}
    /\ direct_output = TRUE
    /\ idx = 1
    /\ pred_seg = <<>>
    /\ seg_shape = 0
    /\ results = <<>>
    /\ ret = "unset"
    /\ saved = <<>>
    /\ cleanups = 0
    /\ error = "none"
    /\ raw = <<>>
    /\ concat_args = <<>>
    /\ steps = <<>>

NextArgmax ==
    \/ FetchInferAny
    \/ Reassemble
    \/ Discretize

SpecArgmax == InitArgmax /\ [][NextArgmax]_vars

\* ------------------------------------------------------------ properties

\* Number of predictions emitted so far (appended or handed to the sink).
NumEmitted == Len(results) + Len(saved)

PatchwiseMode == analysis \in {"patchwise-crop", "patchwise-grid"}

\* C1: in predict with batch or subfunction caching active, batch_cleanup has
\* run for a sample whose pipeline failed before the error reaches the
\* caller: with the error out, one cleanup per sample started, the failing
\* one included.
C1_CleanupAfterFailure ==
    (stage = "predict" /\ pc = "failed"
        /\ (prepare_batches \/ prepare_subfunctions))
    => cleanups = idx

\* C2: a failure while processing one sample aborts only that sample: once
\* predict has stopped on an error, every other sample of the list (the
\* identifiers being distinct) has been emitted.
C2_OtherSamplesEmitted ==
    (/\ stage = "predict" /\ pc = "failed"
     /\ \A i, j \in DOMAIN sample_list :
            i # j => sample_list[i] # sample_list[j])
    => NumEmitted = Len(sample_list) - 1

\* C3: under a patch-based analysis the shape record of a processed sample is
\* consumed exactly once: the cache changes only by the Reassemble step
\* removing the current sample's record (every other record kept as it is),
\* the removed shape is the image_size handed to the reconstructor, and from
\* Reassemble on no record of the sample remains.
C3_ShapeConsumedOnce ==
    /\ [](stage = "predict" /\ PatchwiseMode
            /\ pc \in {"reassembled", "discretized", "postprocessed", "emitted"}
          => /\ sample_list[idx] \notin DOMAIN shape_cache
             /\ Len(SelectSeq(steps, LAMBDA st : st = "Reassemble")) = 1
             /\ seg_shape = SampleShape(sample_list[idx])
             /\ concat_args.image_size = seg_shape)
    /\ [][stage = "predict" /\ shape_cache' # shape_cache
          => /\ pc = "inferred" /\ PatchwiseMode
             /\ sample_list[idx] \in DOMAIN shape_cache
             /\ DOMAIN shape_cache' = DOMAIN shape_cache \ {sample_list[idx]}
             /\ \A x \in DOMAIN shape_cache' : shape_cache'[x] = shape_cache[x]
             /\ seg_shape' = shape_cache[sample_list[idx]]
             /\ concat_args'.image_size = shape_cache[sample_list[idx]]]_vars

C3_Witness ==
    /\ stage = "predict" /\ pc = "done" /\ PatchwiseMode
    /\ Len(sample_list) = 1
    /\ seg_shape > 0
    /\ DOMAIN shape_cache = Samples \ {sample_list[1]}

\* C4: under a patch-based analysis a sample without a shape record makes
\* Reassemble raise MissingShapeError, and the sample is never discretized,
\* post-processed or emitted.
C4_MissingShape ==
    /\ [](error = "MissingShapeError"
          => /\ pc = "failed"
             /\ steps = <<"FetchInfer">>
             /\ NumEmitted = idx - 1)
    /\ [][(stage = "predict" /\ pc = "inferred" /\ PatchwiseMode
             /\ sample_list[idx] \notin DOMAIN shape_cache)
          => /\ pc' = "failed" /\ error' = "MissingShapeError"
             /\ results' = results /\ saved' = saved
             /\ pred_seg' = pred_seg]_vars

C4_Witness ==
    /\ error = "MissingShapeError"
    /\ idx = 2
    /\ sample_list[1] = sample_list[2]

\* The steps of one sample, in order.
StepOrder ==
    <<"FetchInfer">>
    \o (IF PatchwiseMode THEN <<"Reassemble">> ELSE <<>>)
    \o <<"Discretize", "PostProcess", "Emit">>
    \o (IF prepare_batches \/ prepare_subfunctions THEN <<"Cleanup">> ELSE <<>>)

\* One label taken through the subfunctions k.. in registration order.
RECURSIVE RelabelInOrder(_, _)
RelabelInOrder(k, l) ==
    IF k > Len(subfunctions) THEN l
    ELSE RelabelInOrder(k + 1, Relabel(subfunctions[k], l))

\* The array discretized for the current sample: the reassembled volume under
\* a patch-based analysis, the raw model output otherwise.
Scores ==
    IF PatchwiseMode
    THEN concat_3Dmatrices(raw, seg_shape, patch_shape,
                           patchwise_grid_overlap).volume
    ELSE raw

\* C5: the steps of a sample run in the order FetchInfer, Reassemble (patch
\* modes only), Discretize, PostProcess, Emit, Cleanup; the post-processed
\* volume is the discretized volume taken through the subfunctions in
\* registration order; and the next sample is fetched only after the steps of
\* the sample before it have all run.
C5_StepOrder ==
    /\ [](stage = "predict"
          => /\ Len(steps) <= Len(StepOrder)
             /\ steps = SubSeq(StepOrder, 1, Len(steps)))
    /\ [](pc \in {"postprocessed", "emitted"}
          => pred_seg =
                IF PatchwiseMode
                THEN [x \in DOMAIN Scores |->
                         RelabelInOrder(1, ArgMax(Scores[x]))]
                ELSE [b \in DOMAIN Scores |-> [x \in DOMAIN Scores[b] |->
                         RelabelInOrder(1, ArgMax(Scores[b][x]))]])
    /\ [][(stage = "predict" /\ steps' # steps /\ Len(steps') = 1)
          => /\ pc = "loop"
             /\ steps'[1] = "FetchInfer"
             /\ (idx > 1 => steps = StepOrder)]_vars

C5_Witness ==
    /\ pc = "emitted" /\ idx = 2
    /\ PatchwiseMode
    /\ subfunctions = <<"rotate", "merge">>
    /\ steps = SubSeq(StepOrder, 1, 5)
    /\ \E x \in DOMAIN pred_seg : pred_seg[x] = 0

\* The class index np.argmax must give for one score vector: a maximal score
\* with every earlier class scoring strictly less.
IsFirstMax(v, l) ==
    /\ l \in 0..(Len(v) - 1)
    /\ \A j \in DOMAIN v : v[j] <= v[l + 1]
    /\ \A j \in 1..l : v[j] < v[l + 1]

\* C6: under an analysis that is not patch-based predict skips Reassemble:
\* the shape cache is neither read nor changed, the reconstructor is not
\* called, and Discretize works on the raw model output.
C6_NoReassemble ==
    /\ [](stage = "predict" /\ ~PatchwiseMode
          => /\ seg_shape = 0
             /\ concat_args = <<>>
             /\ \A k \in DOMAIN steps : steps[k] # "Reassemble"
             /\ error \notin {"MissingShapeError", "InvalidOverlapError",
                              "ReconstructionCoverageError"}
             /\ (pc = "discretized"
                 => /\ DOMAIN pred_seg = DOMAIN raw
                    /\ \A b \in DOMAIN raw :
                          /\ DOMAIN pred_seg[b] = DOMAIN raw[b]
                          /\ \A x \in DOMAIN raw[b] :
                                IsFirstMax(raw[b][x], pred_seg[b][x])))
    /\ [][stage = "predict" /\ ~PatchwiseMode
          => shape_cache' = shape_cache]_vars

C6_Witness ==
    /\ stage = "predict" /\ pc = "done" /\ ~PatchwiseMode
    /\ Len(sample_list) = 2
    /\ sample_list[1] \in DOMAIN shape_cache
    /\ NumEmitted = 2

C8_InvalidOverlapRejected ==
    (PatchwiseMode /\ patchwise_grid_overlap >= patch_shape)
    => /\ raw = <<>>
       /\ seg_shape = 0
       /\ steps = <<>>

\* C9: predictions are emitted exactly once per entry of the sample list:
\* with direct output predict returns the list of the volumes, one per entry
\* in list order, and the sink is never called; without it the sink receives
\* one call per entry, with the entry's volume and identifier, and predict
\* returns nothing.
C9_EmitOncePerSample ==
    /\ [](stage = "predict" /\ direct_output
          => /\ saved = <<>>
             /\ ret \in {"unset", "list"})
    /\ [](stage = "predict" /\ ~direct_output
          => /\ results = <<>>
             /\ ret \in {"unset", "None"}
             /\ \A i \in DOMAIN saved : saved[i][2] = sample_list[i])
    /\ [](stage = "predict" /\ pc = "done"
          => /\ NumEmitted = Len(sample_list)
             /\ ret = IF direct_output THEN "list" ELSE "None")
    /\ [](stage = "predict" /\ pc = "emitted"
          => /\ NumEmitted = idx
             /\ IF direct_output THEN results[idx] = pred_seg
                ELSE saved[idx] = <<pred_seg, sample_list[idx]>>)
    /\ [][stage = "predict" /\ (results' # results \/ saved' # saved)
          => /\ pc = "postprocessed" /\ pc' = "emitted"
             /\ IF direct_output
                THEN results' = Append(results, pred_seg) /\ saved' = saved
                ELSE /\ saved' = Append(saved, <<pred_seg, sample_list[idx]>>)
                     /\ results' = results]_vars

C9_Witness ==
    /\ stage = "predict" /\ pc = "done" /\ direct_output
    /\ ret = "list"
    /\ Len(results) = 2
    /\ results[1] # results[2]

\* C10: Discretize gives every voxel the class index of its maximal score,
\* the lowest index among equals, and keeps the array's shape but for the
\* class axis.
C10_Argmax ==
    [][pc # "discretized" /\ pc' = "discretized"
       => IF pc = "reassembled"
          THEN /\ DOMAIN pred_seg' = DOMAIN pred_seg
               /\ \A x \in DOMAIN pred_seg :
                     IsFirstMax(pred_seg[x], pred_seg'[x])
          ELSE /\ DOMAIN pred_seg' = DOMAIN pred_seg
               /\ \A b \in DOMAIN pred_seg :
                     /\ DOMAIN pred_seg'[b] = DOMAIN pred_seg[b]
                     /\ \A x \in DOMAIN pred_seg[b] :
                           IsFirstMax(pred_seg[b][x], pred_seg'[b][x])]_vars

\* A discretized voxel whose classes all share the maximal score.
C10_Witness ==
    /\ pc = "discretized" /\ PatchwiseMode
    /\ \E x \in DOMAIN Scores :
          /\ \A j \in DOMAIN Scores[x] : Scores[x][j] = MaxScore
          /\ pred_seg[x] = 0

====
